---- MODULE Spec2Model ----
(***************************************************************************)
(* rss_autogen_giscus: the GraphQL engine of src/src/gql.rs (retry loop,   *)
(* the two cursor walks, the repository-id lookup) and its orchestration   *)
(* by create_discussion in src/src/lib.rs.                                 *)
(*                                                                         *)
(* A step of the model is what the program does between two suspension     *)
(* points (.await): the arrival of an HTTP response or the expiry of a     *)
(* sleep, followed by all the synchronous code up to the next .await.      *)
(* Option<T> is a sequence of length 0 (None) or 1 (Some); strings that    *)
(* are searched (error bodies, titles, the post's path) are sequences of   *)
(* tokens, so that contains() is computed and not assumed.                 *)
(***************************************************************************)
EXTENDS Integers, Sequences, FiniteSets, TLC

VARIABLES
    entry,      \* the public function that was called
    clients,    \* HttpClients: the immutable configuration
    post,       \* Post: the candidate post
    task,       \* per future: the frame of github_gql_query and of its caller
    cd,         \* the frame of create_discussion
    outcome,    \* how the call of `entry` ended, or that it is running
    resp,       \* observation: the response consumed by the latest step
    log,        \* observation: the lines gql_sleep wrote for the current query
    env         \* the environment variables of the process

vars == <<entry, clients, post, task, cd, outcome, resp, log, env>>

-----------------------------------------------------------------------------
(* Bounds of the model *)

\* Most edges a page of the server carries.
MaxEdges == 2
\* Most pages the server serves to one walk.
MaxPages == 3

(* Program constants *)

\* vec![query_vars.clone(); 5]
QueryAttempts == 5
\* gql_sleep(err_status, err_body, 30) for the server-error marker
ServerErrorSleep == 30
\* gql_sleep(err_status, err_body, 30) for 400..=599
ClientErrorSleep == 30
\* 5 * (2_u64).pow(attempt)
BackoffBase == 5

-----------------------------------------------------------------------------
(* Values *)

None == <<>>
Some(x) == <<x>>

\* err_body.contains("Server Error")
ServerError == <<"Server", "Error">>

\* The error bodies the server answers with.
Bodies == { <<"Server", "Busy">>, <<"502", "Server", "Error">> }

\* The statuses of error responses: one below 300, a redirect, 401, 403,
\* another 400-599 status, and one above 599.
Statuses == {199, 302, 401, 403, 500, 600}

Tasks == {"cat", "disc", "repo"}

\* The operation each future runs through github_gql_query.
OperationName(t) ==
    CASE t = "cat" -> "CategoryQuery"
      [] t = "disc" -> "DiscussionExists"
      [] t = "repo" -> "RepoIdQuery"

Cursors == {"Y3Vyc29yOjE", "Y3Vyc29yOjI"}

\* post.url.path() and the titles of the server's discussions: the path
\* itself, the path as Giscus records it (leading slash stripped), another.
PostPath == <<"/", "post-a">>
Titles == { <<"/", "post-a">>, <<"post-a">>, <<"/", "post-b">> }
\* Ages of the server's discussions, in days before current_time.
Ages == {1, 10}
\* LOOKBACK_DAYS: i64 (negative, disabled, as old as the newer discussions,
\* the default)
LookbackDays == {-1, 0, 1, 7}

CategoryNames == {"Blogs", "Q&A"}

RepoId == "R_kgDOJSVgjQ"

-----------------------------------------------------------------------------
(* What the server can answer *)

SeqsUpTo(S, n) == UNION { [1..k -> S] : k \in 0..n }

\* CynicReqwestError::ErrorResponse(status, body)
ErrorResponses ==
    { [kind |-> "ErrorResponse", status |-> s, body |-> b] :
        s \in Statuses, b \in Bodies }

\* CynicReqwestError::ReqwestError: timeout, connection failure, bad body
ReqwestError == [kind |-> "ReqwestError"]

\* PageInfo { end_cursor, has_next_page }
PageInfos ==
    [end_cursor : {None} \cup { Some(c) : c \in Cursors },
     has_next_page : BOOLEAN]

\* DiscussionCategory { id, name }
CategoryNodes == [name : CategoryNames, id : {"DIC_1", "DIC_2"}]
\* DiscussionCategoryEdge { node }
CategoryEdges == [node : {None} \cup { Some(c) : c \in CategoryNodes }]
\* DiscussionCategoryConnection { edges, page_info }
CategoryPages == [edges : SeqsUpTo(CategoryEdges, MaxEdges), page_info : PageInfos]

\* The number a discussion has on the server; its url ends with it.
DiscussionNumber(title, age) ==
    age + (CASE title = <<"/", "post-a">> -> 100
             [] title = <<"post-a">> -> 200
             [] OTHER -> 300)

\* Discussion { title, created_at, url }: created_at is kept as the age
\* current_time - created_at in days, url as the discussion's number.
DiscussionNodes ==
    { [title |-> t, created_at |-> a, url |-> DiscussionNumber(t, a)] :
        t \in Titles, a \in Ages }
\* DiscussionEdge { node }
DiscussionEdges == [node : {None} \cup { Some(d) : d \in DiscussionNodes }]
\* DiscussionConnection { edges, page_info }
DiscussionPages ==
    [edges : SeqsUpTo(DiscussionEdges, MaxEdges), page_info : PageInfos]

\* GraphQlResponse { data, errors }: data is the connection reached through
\* data.repository (None when either is absent), errors is whether the
\* response carries an errors list.
OkResponse(data, errors) == [kind |-> "Ok", data |-> data, errors |-> errors]

\* A discussions page that carries a match, served with an errors list.
PageWithErrors ==
    [edges |-> << [node |-> Some([title |-> PostPath, created_at |-> 1,
                                  url |-> DiscussionNumber(PostPath, 1)])] >>,
     page_info |-> [end_cursor |-> None, has_next_page |-> FALSE]]

\* The responses run_graphql can deliver to a query of any operation.
CommonResponses ==
    ErrorResponses \cup {ReqwestError} \cup { OkResponse(None, e) : e \in BOOLEAN }

\* The responses to CategoryQuery.
CategoryResponses ==
    CommonResponses \cup
    { OkResponse(Some(p), e) : p \in CategoryPages, e \in BOOLEAN }

\* The responses to DiscussionExists.
DiscussionResponses ==
    CommonResponses \cup
    { OkResponse(Some(p), FALSE) : p \in DiscussionPages } \cup
    { OkResponse(Some(PageWithErrors), TRUE) }

\* The responses to RepoIdQuery.
RepoIdResponses ==
    CommonResponses \cup { OkResponse(Some(RepoId), e) : e \in BOOLEAN }

\* The responses run_graphql can deliver to each future.
Responses(t) ==
    CASE t = "cat" -> CategoryResponses
      [] t = "disc" -> DiscussionResponses
      [] t = "repo" -> RepoIdResponses

\* The server has no more than MaxPages pages for a walk: the page with
\* number MaxPages reports has_next_page = false.
Serves(t, r, pages) ==
    (t # "repo" /\ r.kind = "Ok" /\ r.data # None
        /\ r.data[1].page_info.has_next_page) => pages < MaxPages

-----------------------------------------------------------------------------
(* github_gql_query *)

\* str::contains on token sequences
Contains(s, t) ==
    \E i \in 1..(Len(s) - Len(t) + 1) : SubSeq(s, i, i + Len(t) - 1) = t

Sleep(secs) == [kind |-> "sleep", secs |-> secs, msg |-> ""]
Panic(msg) == [kind |-> "panic", secs |-> 0, msg |-> msg]
Return == [kind |-> "return", secs |-> 0, msg |-> ""]

\* Mutant: the exponent counted from 0.
RateLimitSleepZeroIndexed(attempt) == BackoffBase * 2^(attempt - 1)

\* Mutant: a linear backoff.
RateLimitSleepLinear(attempt) == BackoffBase * 2 * attempt

\* 5 * (2_u64).pow(attempt)
RateLimitSleep(attempt) == BackoffBase * 2^attempt

\* Mutant: the arm 400..=599 placed before the arm 401.
MatchStatusRetries401(status, attempt) ==
    IF status = 403 THEN Sleep(RateLimitSleep(attempt))
    ELSE IF status \in 400..599 THEN Sleep(ClientErrorSleep)
    ELSE IF status = 401 THEN Panic("Invalid authentication tokens")
    ELSE IF status \in 300..399 THEN Panic("Unexpected redirection response")
    ELSE Panic("Unhandled HTTP status code")

\* Mutant: every status that is not named is retried.
MatchStatusRetriesRest(status, attempt) ==
    IF status = 403 THEN Sleep(RateLimitSleep(attempt))
    ELSE IF status = 401 THEN Panic("Invalid authentication tokens")
    ELSE Sleep(ClientErrorSleep)

\* match err_status.as_u16() { ... }
MatchStatus(status, attempt) ==
    IF status = 403 THEN Sleep(RateLimitSleep(attempt))
    ELSE IF status = 401 THEN Panic("Invalid authentication tokens")
    ELSE IF status \in 400..599 THEN Sleep(ClientErrorSleep)
    ELSE IF status \in 300..399 THEN Panic("Unexpected redirection response")
    ELSE Panic("Unhandled HTTP status code")

\* Mutant: the status is matched before the body is searched.
QueryResponseStatusFirst(r, attempt) ==
    IF r.kind = "ErrorResponse"
    THEN IF r.status \in {401, 403} \/ r.status \notin 400..599
         THEN MatchStatus(r.status, attempt)
         ELSE Sleep(ServerErrorSleep)
    ELSE Return

\* Mutant: a failure without a status is retried like a server error.
QueryResponseRetriesTransport(r, attempt) ==
    IF r.kind = "ErrorResponse"
    THEN IF Contains(r.body, ServerError)
         THEN Sleep(ServerErrorSleep)
         ELSE MatchStatus(r.status, attempt)
    ELSE IF r.kind = "ReqwestError" THEN Sleep(ServerErrorSleep)
    ELSE Return

\* The body of the for loop after run_graphql(..).await, for the response r
\* of attempt number `attempt`.
QueryResponse(r, attempt) ==
    IF r.kind = "ErrorResponse"
    THEN IF Contains(r.body, ServerError)
         THEN Sleep(ServerErrorSleep)
         ELSE MatchStatus(r.status, attempt)
    ELSE Return

\* Mutant: one copy of the variables too many.
HasNextAttemptOneMore(attempt) == attempt <= QueryAttempts

\* Mutant: one copy of the variables too few.
HasNextAttemptOneLess(attempt) == attempt < QueryAttempts - 1

\* for vars in query_attempts: whether another iteration follows the
\* iteration number `attempt`.
HasNextAttempt(attempt) == attempt < QueryAttempts

-----------------------------------------------------------------------------
(* The callers of github_gql_query *)

Ok(v) == [kind |-> "Ok", val |-> v]
Err == [kind |-> "Err", val |-> None]
NoResult == [kind |-> "none", val |-> None]

\* What a caller does with the value github_gql_query returned: ask for the
\* next page, return, or panic.
WalkNext(cursor) == [kind |-> "next", cursor |-> cursor, result |-> NoResult, msg |-> ""]
WalkReturn(result) == [kind |-> "return", cursor |-> None, result |-> result, msg |-> ""]
WalkPanic(msg) == [kind |-> "panic", cursor |-> None, result |-> NoResult, msg |-> msg]

\* edges.iter().flat_map(|c| &c.node) / filter_map(|edge| edge.node.as_ref())
RECURSIVE Nodes(_)
Nodes(edges) ==
    IF edges = <<>> THEN <<>> ELSE Head(edges).node \o Nodes(Tail(edges))

\* Mutant: the last category of that name is taken.
RECURSIVE FindLast(_, _)
FindLast(cats, name) ==
    IF cats = <<>> THEN None
    ELSE IF FindLast(Tail(cats), name) # None THEN FindLast(Tail(cats), name)
    ELSE IF Head(cats).name = name THEN Some(Head(cats))
    ELSE None

\* .find(|cat| cat.name == clients.discussion_category)
RECURSIVE Find(_, _)
Find(cats, name) ==
    IF cats = <<>> THEN None
    ELSE IF Head(cats).name = name THEN Some(Head(cats))
    ELSE Find(Tail(cats), name)

\* Mutant: a page without the category is taken for the last one.
CategoryResponseFirstPageOnly(r) ==
    IF r.kind # "Ok" THEN WalkReturn(Err)
    ELSE IF r.data = None THEN WalkPanic("No discussion categories found")
    ELSE LET categories == r.data[1]
             matching_cat == Find(Nodes(categories.edges), clients.discussion_category)
         IN  IF matching_cat # None THEN WalkReturn(Ok(matching_cat[1].id))
             ELSE WalkPanic("Category was not present in repository")

\* Mutant: the next page is asked for before the page is searched.
CategoryResponsePagesFirst(r) ==
    IF r.kind # "Ok" THEN WalkReturn(Err)
    ELSE IF r.data = None THEN WalkPanic("No discussion categories found")
    ELSE LET categories == r.data[1]
             matching_cat == Find(Nodes(categories.edges), clients.discussion_category)
         IN  IF categories.page_info.has_next_page
             THEN WalkNext(categories.page_info.end_cursor)
             ELSE IF matching_cat # None THEN WalkReturn(Ok(matching_cat[1].id))
             ELSE WalkPanic("Category was not present in repository")

\* get_category_id: the loop body after github_gql_query(..).await
CategoryResponse(r) ==
    IF r.kind # "Ok" THEN WalkReturn(Err)
    ELSE IF r.data = None THEN WalkPanic("No discussion categories found")
    ELSE LET categories == r.data[1]
             matching_cat == Find(Nodes(categories.edges), clients.discussion_category)
         IN  IF matching_cat # None THEN WalkReturn(Ok(matching_cat[1].id))
             ELSE IF categories.page_info.has_next_page
                  THEN WalkNext(categories.page_info.end_cursor)
                  ELSE WalkPanic("Category was not present in repository")

\* Mutant: the lookback period is not tested for zero.
TooOldNoZeroTest(discussion) == discussion.created_at > clients.lookback_days

\* !max_lookback.is_zero() && current_time - created_at > max_lookback
TooOld(discussion) ==
    clients.lookback_days # 0 /\ discussion.created_at > clients.lookback_days

\* post.url.path()
Path(url) == Tail(url)

\* Mutant: only the start of the title is looked for in the path.
TitleMatchesPrefixOnly(discussion) ==
    Contains(Path(post.url), SubSeq(discussion.title, 1, 1))

\* post.url.path().contains(&discussion.title)
TitleMatches(discussion) == Contains(Path(post.url), discussion.title)

\* Mutant: the title is compared before the age is looked at.
RECURSIVE ForDiscussionMatchFirst(_)
ForDiscussionMatchFirst(discussions) ==
    IF discussions = <<>> THEN [returned |-> FALSE, val |-> None]
    ELSE IF TitleMatches(Head(discussions))
         THEN [returned |-> TRUE, val |-> Some(Head(discussions).url)]
    ELSE IF TooOld(Head(discussions)) THEN [returned |-> TRUE, val |-> None]
    ELSE ForDiscussionMatchFirst(Tail(discussions))

\* Mutant: a discussion older than the lookback period is skipped, and the
\* scan goes on.
RECURSIVE ForDiscussionSkipsOld(_)
ForDiscussionSkipsOld(discussions) ==
    IF discussions = <<>> THEN [returned |-> FALSE, val |-> None]
    ELSE IF TooOld(Head(discussions)) THEN ForDiscussionSkipsOld(Tail(discussions))
    ELSE IF TitleMatches(Head(discussions))
         THEN [returned |-> TRUE, val |-> Some(Head(discussions).url)]
         ELSE ForDiscussionSkipsOld(Tail(discussions))

\* for discussion in discussions.edges...: the value the loop returns, if any
RECURSIVE ForDiscussion(_)
ForDiscussion(discussions) ==
    IF discussions = <<>> THEN [returned |-> FALSE, val |-> None]
    ELSE IF TooOld(Head(discussions)) THEN [returned |-> TRUE, val |-> None]
    ELSE IF TitleMatches(Head(discussions))
         THEN [returned |-> TRUE, val |-> Some(Head(discussions).url)]
         ELSE ForDiscussion(Tail(discussions))

\* Mutant: the next page is asked for before the scan's result is looked at.
DiscussionResponsePagesFirst(r) ==
    IF r.kind # "Ok" THEN WalkReturn(Err)
    ELSE IF ~r.errors /\ r.data # None
    THEN LET discussions == r.data[1]
             scan == ForDiscussion(Nodes(discussions.edges))
         IN  IF discussions.page_info.has_next_page
             THEN WalkNext(discussions.page_info.end_cursor)
             ELSE IF scan.returned THEN WalkReturn(Ok(scan.val))
             ELSE WalkReturn(Ok(None))
    ELSE WalkPanic("Unable to query existing repos")

\* Mutant: a last page without a match falls through to the panic.
DiscussionResponseLastPagePanics(r) ==
    IF r.kind # "Ok" THEN WalkReturn(Err)
    ELSE IF ~r.errors /\ r.data # None
    THEN LET discussions == r.data[1]
             scan == ForDiscussion(Nodes(discussions.edges))
         IN  IF scan.returned THEN WalkReturn(Ok(scan.val))
             ELSE IF discussions.page_info.has_next_page
                  THEN WalkNext(discussions.page_info.end_cursor)
                  ELSE WalkPanic("Unable to query existing repos")
    ELSE WalkPanic("Unable to query existing repos")

\* Mutant: the errors list is not looked at when the data is there.
DiscussionResponseIgnoresErrors(r) ==
    IF r.kind # "Ok" THEN WalkReturn(Err)
    ELSE IF r.data # None
    THEN LET discussions == r.data[1]
             scan == ForDiscussion(Nodes(discussions.edges))
         IN  IF scan.returned THEN WalkReturn(Ok(scan.val))
             ELSE IF discussions.page_info.has_next_page
                  THEN WalkNext(discussions.page_info.end_cursor)
                  ELSE WalkReturn(Ok(None))
    ELSE WalkPanic("Unable to query existing repos")

\* discussion_exists: the loop body after github_gql_query(..).await
DiscussionResponse(r) ==
    IF r.kind # "Ok" THEN WalkReturn(Err)
    ELSE IF ~r.errors /\ r.data # None
    THEN LET discussions == r.data[1]
             scan == ForDiscussion(Nodes(discussions.edges))
         IN  IF scan.returned THEN WalkReturn(Ok(scan.val))
             ELSE IF discussions.page_info.has_next_page
                  THEN WalkNext(discussions.page_info.end_cursor)
                  ELSE WalkReturn(Ok(None))
    ELSE WalkPanic("Unable to query existing repos")

\* full_desc: the post's url, with the description and a blank line before it
FullDesc ==
    IF post.description # None
    THEN post.description[1] \o <<"\n\n">> \o post.url
    ELSE post.url

\* Mutant: the two ids, both of type Id, change places.
CreateCommentsDiscussionIdsSwapped(repo_id) ==
    [repo_id |-> cd.cat_id[1], cat_id |-> repo_id, desc |-> FullDesc,
     title |-> Path(post.url)]

\* CreateCommentsDiscussion::build(CreateCommentsDiscussionVariables {..})
CreateCommentsDiscussion(repo_id) ==
    [repo_id |-> repo_id, cat_id |-> cd.cat_id[1], desc |-> FullDesc,
     title |-> Path(post.url)]

\* get_repo_id after github_gql_query(..).await, and create_graphql_request
\* after get_repo_id(..).await: repo_id.unwrap() panics on Err.
RepoIdResponse(r) ==
    IF r.kind # "Ok" THEN WalkPanic("called Result::unwrap() on an Err value")
    ELSE IF r.data # None THEN WalkReturn(Ok(CreateCommentsDiscussion(r.data[1])))
    ELSE WalkPanic("Repo ID could not be retrieved")

CallerResponse(t, r) ==
    CASE t = "cat" -> CategoryResponse(r)
      [] t = "disc" -> DiscussionResponse(r)
      [] t = "repo" -> RepoIdResponse(r)

-----------------------------------------------------------------------------
(* Frames and their steps.  S is [task, cd, outcome]. *)

Idle ==
    [pc |-> "idle", attempt |-> 0, sleep_secs |-> 0, sent |-> 0,
     after_cursor |-> None, pages |-> 0, result |-> NoResult]

\* Mutant: the cursor of the page is not handed to the next query.
NewQueryNoCursor(cursor, pages) ==
    [pc |-> "await", attempt |-> 1, sleep_secs |-> 0, sent |-> 1,
     after_cursor |-> None, pages |-> pages, result |-> NoResult]

\* A call of github_gql_query up to its first .await: attempt = 1 and the
\* request is sent.  `pages` counts the calls the walk has made.
NewQuery(cursor, pages) ==
    [pc |-> "await", attempt |-> 1, sleep_secs |-> 0, sent |-> 1,
     after_cursor |-> cursor, pages |-> pages, result |-> NoResult]

\* The future has returned: its locals are dropped, its value is kept.
Done(result) == [Idle EXCEPT !.pc = "done", !.result = result]

Running == [kind |-> "running", msg |-> "", by |-> ""]
Ended(kind) == [kind |-> kind, msg |-> "", by |-> ""]

SetTask(S, t, frame) == [S EXCEPT !.task[t] = frame]
Panicked(S, by, msg) ==
    [S EXCEPT !.outcome = [kind |-> "panic", msg |-> msg, by |-> by]]

\* create_discussion after join!: lib.rs 218-231
Joined(S) ==
    LET is_existing_discussion == S.task["disc"].result
    IN  IF is_existing_discussion.kind = "Err"
        THEN Panicked(S, "create_discussion", "called Result::unwrap() on an Err value")
        ELSE IF is_existing_discussion.val # None
        THEN [S EXCEPT !.cd.pc = "done",
                       !.cd.existing = is_existing_discussion.val,
                       !.outcome = Ended("Ok")]
        ELSE [S EXCEPT !.cd.pc = "mutation", !.cd.mutations = @ + 1]

\* Mutant: the first future to finish completes the wait (a select!).
JoinCompleteEither(S) == S.task["disc"].pc = "done" \/ S.task["repo"].pc = "done"

\* join!(discussion_exists(..), create_graphql_request(..)) is complete
\* when both futures are.
JoinComplete(S) == S.task["disc"].pc = "done" /\ S.task["repo"].pc = "done"

\* Mutant: an error of get_category_id is taken for an empty id, and the
\* run goes on.
ReturnedCategoryErrorGoesOn(S, t, result) ==
    LET S1 == SetTask(S, t, Done(result))
    IN  IF entry # "create_discussion"
        THEN [S1 EXCEPT !.outcome = Ended(result.kind)]
        ELSE IF t = "cat"
        THEN [S1 EXCEPT !.cd.pc = "join",
                        !.cd.cat_id = Some(IF result.kind = "Err" THEN ""
                                           ELSE result.val),
                        !.task["disc"] = NewQuery(None, 1),
                        !.task["repo"] = NewQuery(None, 1)]
        ELSE IF JoinComplete(S1) THEN Joined(S1) ELSE S1

\* The future t returns `result` to its caller.
Returned(S, t, result) ==
    LET S1 == SetTask(S, t, Done(result))
    IN  IF entry # "create_discussion"
        THEN [S1 EXCEPT !.outcome = Ended(result.kind)]
        ELSE IF t = "cat"
        THEN IF result.kind = "Err"
             THEN [S1 EXCEPT !.cd.pc = "done", !.outcome = Ended("Err")]
             ELSE [S1 EXCEPT !.cd.pc = "join",
                             !.cd.cat_id = Some(result.val),
                             !.task["disc"] = NewQuery(None, 1),
                             !.task["repo"] = NewQuery(None, 1)]
        ELSE IF JoinComplete(S1) THEN Joined(S1) ELSE S1

\* Mutant: no sleep follows the failure of the last attempt.
ReceivedNoSleepAfterLast(S, t, r) ==
    LET q == QueryResponse(r, S.task[t].attempt)
        c == CallerResponse(t, r)
    IN  IF q.kind = "sleep"
        THEN IF HasNextAttempt(S.task[t].attempt)
             THEN SetTask(S, t, [S.task[t] EXCEPT !.pc = "sleep", !.sleep_secs = q.secs])
             ELSE Panicked(S, t, "Exceeded maximum of 5 attempts")
        ELSE IF q.kind = "panic" THEN Panicked(S, t, q.msg)
        ELSE IF c.kind = "next"
        THEN SetTask(S, t, NewQuery(c.cursor, S.task[t].pages + 1))
        ELSE IF c.kind = "panic" THEN Panicked(S, t, c.msg)
        ELSE Returned(S, t, c.result)

\* Mutant: the attempt counter of the walk outlives the query.
ReceivedKeepsAttempt(S, t, r) ==
    LET q == QueryResponse(r, S.task[t].attempt)
        c == CallerResponse(t, r)
    IN  IF q.kind = "sleep"
        THEN SetTask(S, t, [S.task[t] EXCEPT !.pc = "sleep", !.sleep_secs = q.secs])
        ELSE IF q.kind = "panic" THEN Panicked(S, t, q.msg)
        ELSE IF c.kind = "next"
        THEN SetTask(S, t, [NewQuery(c.cursor, S.task[t].pages + 1)
                               EXCEPT !.attempt = S.task[t].attempt])
        ELSE IF c.kind = "panic" THEN Panicked(S, t, c.msg)
        ELSE Returned(S, t, c.result)

\* run_graphql(..).await delivers r to the future t.
Received(S, t, r) ==
    LET q == QueryResponse(r, S.task[t].attempt)
        c == CallerResponse(t, r)
    IN  IF q.kind = "sleep"
        THEN SetTask(S, t, [S.task[t] EXCEPT !.pc = "sleep", !.sleep_secs = q.secs])
        ELSE IF q.kind = "panic" THEN Panicked(S, t, q.msg)
        ELSE IF c.kind = "next"
        THEN SetTask(S, t, NewQuery(c.cursor, S.task[t].pages + 1))
        ELSE IF c.kind = "panic" THEN Panicked(S, t, c.msg)
        ELSE Returned(S, t, c.result)

\* sleep(..).await is over; `continue` takes the next of the 5 copies of the
\* variables, or the loop ends and the function panics.
Woken(S, t) ==
    IF HasNextAttempt(S.task[t].attempt)
    THEN SetTask(S, t, [S.task[t] EXCEPT !.pc = "await", !.sleep_secs = 0,
                                         !.attempt = @ + 1, !.sent = @ + 1])
    ELSE Panicked(S, t, "Exceeded maximum of 5 attempts")

\* The discussions a createDiscussion mutation can report.
CreatedDiscussions ==
    { [title |-> t, url |-> 400] : t \in {PostPath, <<"/", "post-b">>} }

MutationResponses ==
    ErrorResponses \cup {ReqwestError} \cup
    { OkResponse(d, e) : d \in {None} \cup { Some(x) : x \in CreatedDiscussions },
                         e \in BOOLEAN }

\* panic!("Discussion could not be generated. GraphQL errors: \n{:#?}",
\* create_disc_resp.errors)
CouldNotBeGenerated(errors) ==
    IF errors
    THEN "Discussion could not be generated. GraphQL errors: Some([..])"
    ELSE "Discussion could not be generated. GraphQL errors: None"

\* Mutant: a response without a discussion is not looked at.
MutationReceivedNoPayloadOk(S, r) ==
    IF r.kind # "Ok"
    THEN [S EXCEPT !.cd.pc = "done", !.outcome = Ended("Err")]
    ELSE [S EXCEPT !.cd.pc = "done", !.outcome = Ended("Ok"),
                   !.cd.created = IF r.data # None /\ r.data[1].title = Path(post.url)
                                  THEN Some(r.data[1].url) ELSE None]

\* create_discussion after run_graphql(create_disc_op).await: lib.rs 227-251
MutationReceived(S, r) ==
    IF r.kind # "Ok"
    THEN [S EXCEPT !.cd.pc = "done", !.outcome = Ended("Err")]
    ELSE IF r.data # None
    THEN [S EXCEPT !.cd.pc = "done", !.outcome = Ended("Ok"),
                   !.cd.created = IF r.data[1].title = Path(post.url)
                                  THEN Some(r.data[1].url) ELSE None]
    ELSE Panicked(S, "create_discussion", CouldNotBeGenerated(r.errors))

-----------------------------------------------------------------------------
(* Initial states *)

NoResp == [kind |-> "none"]

Posts ==
    [url : { <<"https://blog.example">> \o PostPath },
     description : {None, Some(<<"First", "paragraph">>)}]

Configs == [discussion_category : {"Blogs"}, lookback_days : LookbackDays]

NoCall == [pc |-> "unit", cat_id |-> None, mutations |-> 0,
           existing |-> None, created |-> None]

\* The variables HttpClients::init and HttpClients::clients read.
EnvVars ==
    {"GITHUB_TOKEN", "WEBSITE_RSS_URL", "GITHUB_API_URL", "GITHUB_API_URl",
     "GITHUB_GRAPHQL_URL", "GITHUB_REPOSITORY_OWNER", "GITHUB_REPOSITORY",
     "DISCUSSION_CATEGORY", "LOOKBACK_DAYS"}

\* The values a variable can have when it is set.
EnvValues(v) ==
    CASE v = "GITHUB_REPOSITORY" -> { <<"cam-rod", "/", "blog">>, <<"blog">> }
      [] v = "LOOKBACK_DAYS" -> {"0", "-1", "seven"}
      [] v = "GITHUB_API_URL" -> {"https://ghe.example/api/v3"}
      [] v = "GITHUB_API_URl" -> {"https://other.example/api"}
      [] v = "GITHUB_GRAPHQL_URL" -> {"https://ghe.example/api/graphql"}
      [] OTHER -> {"set"}

\* A variable unset, or set to one of its values.
Setting(v) == {None} \cup { Some(x) : x \in EnvValues(v) }

\* The environments of the process.
Envs ==
    [GITHUB_TOKEN : Setting("GITHUB_TOKEN"),
     WEBSITE_RSS_URL : Setting("WEBSITE_RSS_URL"),
     GITHUB_API_URL : Setting("GITHUB_API_URL"),
     GITHUB_API_URl : Setting("GITHUB_API_URl"),
     GITHUB_GRAPHQL_URL : Setting("GITHUB_GRAPHQL_URL"),
     GITHUB_REPOSITORY_OWNER : Setting("GITHUB_REPOSITORY_OWNER"),
     GITHUB_REPOSITORY : Setting("GITHUB_REPOSITORY"),
     DISCUSSION_CATEGORY : Setting("DISCUSSION_CATEGORY"),
     LOOKBACK_DAYS : Setting("LOOKBACK_DAYS")]

\* create_discussion and the functions of gql.rs read no variable: they are
\* handed the HttpClients.
NoEnv == [v \in EnvVars |-> None]

InitCommon ==
    /\ env = NoEnv
    /\ clients \in Configs
    /\ post \in Posts
    /\ outcome = Running
    /\ resp = NoResp
    /\ log = <<>>

\* create_discussion(clients, post) up to its first .await
Init ==
    /\ InitCommon
    /\ entry = "create_discussion"
    /\ task = [t \in Tasks |-> IF t = "cat" THEN NewQuery(None, 1) ELSE Idle]
    /\ cd = [NoCall EXCEPT !.pc = "category"]

\* create_graphql_request(clients, post, cat_id) up to its first .await
InitQuery ==
    /\ InitCommon
    /\ entry = "create_graphql_request"
    /\ task = [t \in Tasks |-> IF t = "repo" THEN NewQuery(None, 1) ELSE Idle]
    /\ cd = [NoCall EXCEPT !.cat_id = Some("DIC_1")]

\* get_category_id(clients) or discussion_exists(clients, post, cat_id) up
\* to its first .await
InitWalk ==
    /\ InitCommon
    /\ \E t \in {"cat", "disc"} :
          /\ entry = (IF t = "cat" THEN "get_category_id" ELSE "discussion_exists")
          /\ task = [u \in Tasks |-> IF u = t THEN NewQuery(None, 1) ELSE Idle]
          /\ cd = [NoCall EXCEPT !.cat_id = IF t = "disc" THEN Some("DIC_1") ELSE None]

-----------------------------------------------------------------------------
(* HttpClients::init *)

\* i64::from_str
FromStr(x) ==
    CASE x = "0" -> Some(0)
      [] x = "-1" -> Some(-1)
      [] x = "7" -> Some(7)
      [] OTHER -> None

\* str::split_once('/')
SplitOnce(x) ==
    IF \E i \in 1..Len(x) : x[i] = "/"
    THEN LET i == CHOOSE k \in 1..Len(x) :
                      x[k] = "/" /\ \A j \in 1..(k - 1) : x[j] # "/"
         IN  Some(<<SubSeq(x, 1, i - 1), SubSeq(x, i + 1, Len(x))>>)
    ELSE None

\* env::var(name)
Var(e, name) == e[name]

\* Option/Result::unwrap_or
UnwrapOr(o, default) == IF o = None THEN default ELSE o[1]

InitPanic(msg) == [kind |-> "panic", msg |-> msg, clients |-> None]

\* HttpClients::init(): the first failing expect/unwrap, in the order of
\* evaluation, or the structure that is built.
HttpClientsInit(e) ==
    IF Var(e, "GITHUB_TOKEN") = None
    THEN InitPanic("GITHUB_TOKEN env var is required")
    ELSE IF Var(e, "WEBSITE_RSS_URL") = None
    THEN InitPanic("WEBSITE_RSS_URL env var is required")
    ELSE IF Var(e, "GITHUB_REPOSITORY_OWNER") = None
    THEN InitPanic("Repo owner was not found (GITHUB_REPOSITORY_OWNER)")
    ELSE IF Var(e, "GITHUB_REPOSITORY") = None
    THEN InitPanic("called Result::unwrap() on an Err value")
    ELSE IF SplitOnce(Var(e, "GITHUB_REPOSITORY")[1]) = None
    THEN InitPanic("Not a valid repo/name string")
    ELSE IF Var(e, "DISCUSSION_CATEGORY") = None
    THEN InitPanic("DISCUSSION_CATEGORY env var is required")
    ELSE IF Var(e, "LOOKBACK_DAYS") # None /\ FromStr(Var(e, "LOOKBACK_DAYS")[1]) = None
    THEN InitPanic("called Result::unwrap() on an Err value")
    ELSE [kind |-> "Ok", msg |-> "",
          clients |-> Some(
            [website_rss_url |-> Var(e, "WEBSITE_RSS_URL")[1],
             github_rest_url |->
                UnwrapOr(Var(e, "GITHUB_API_URl"), "https://api.github.com"),
             github_gql_url |->
                UnwrapOr(Var(e, "GITHUB_GRAPHQL_URL"), "https://api.github.com/graphql"),
             repo_owner |-> Var(e, "GITHUB_REPOSITORY_OWNER")[1],
             repo_name |-> SplitOnce(Var(e, "GITHUB_REPOSITORY")[1])[1][2],
             discussion_category |-> Var(e, "DISCUSSION_CATEGORY")[1],
             lookback_days |->
                IF Var(e, "LOOKBACK_DAYS") = None THEN 7
                ELSE FromStr(Var(e, "LOOKBACK_DAYS")[1])[1]])]

\* The process before HttpClients::init() is called.
InitEnv ==
    /\ env \in Envs
    /\ entry = "HttpClients::init"
    /\ clients = None
    /\ post = None
    /\ task = [t \in Tasks |-> Idle]
    /\ cd = NoCall
    /\ outcome = Running
    /\ resp = NoResp
    /\ log = <<>>

\* HttpClients::init() runs.
CallInit ==
    /\ entry = "HttpClients::init"
    /\ outcome.kind = "running"
    /\ LET r == HttpClientsInit(env)
       IN  /\ clients' = r.clients
           /\ outcome' = [kind |-> r.kind, msg |-> r.msg, by |-> "init"]
    /\ UNCHANGED <<entry, post, task, cd, resp, log, env>>

NextEnv == CallInit

SpecEnv == InitEnv /\ [][NextEnv]_vars

-----------------------------------------------------------------------------
(* main: src/src/main.rs *)

\* serde_json::Value, as far as main looks at it: the type of the value and
\* its text.
JsonNull(text) == [type |-> "null", val |-> text]
JsonNumber(text) == [type |-> "number", val |-> text]
JsonString(text) == [type |-> "string", val |-> text]

\* The values of the members of "data" main reads.
JsonIds == {JsonNull(""), JsonNumber("42"), JsonString("D_kwDOJSVgjc4AUe8J")}
JsonTitles ==
    {JsonNull(<<>>), JsonString(PostPath), JsonString(<<"post-a">>),
     JsonString(<<"/", "post-b">>)}
JsonUrls == {JsonNull(""), JsonString("https://github.com/cam-rod/blog/discussions/42")}

\* What octocrab.graphql(&request).await yields: an error, or the response
\* as a JSON value with or without the members "data" and "errors".
GraphqlResponses ==
    {[kind |-> "Err"]} \cup
    [kind : {"Ok"},
     data : {None} \cup { Some(d) : d \in [id : JsonIds, title : JsonTitles, url : JsonUrls] },
     errors : BOOLEAN]

\* The steps of main, each up to its .await.
MainSteps == <<"latest_post", "post_description", "create_graphql_request", "graphql">>

\* The position of main after step number i has returned Ok.
MainAfter(i) == IF i < Len(MainSteps) THEN MainSteps[i + 1] ELSE "done"

\* value.is_number()
IsNumber(v) == v.type = "number"

\* println!("Successfully created new discussion at {} ({})", url, title)
SuccessLine(d) == [line |-> "Successfully created new discussion", url |-> d.url.val,
                   title |-> d.title.val]

\* main after octocrab.graphql(&request).await, for the value r it yields:
\* the lines printed and the way main ends.
MainResponse(r) ==
    IF r.kind = "Err"
    THEN [printed |-> <<>>, msg |-> "called Result::unwrap() on an Err value"]
    ELSE IF r.data # None /\ IsNumber(r.data[1].id)
    THEN IF r.data[1].title.type # "string"
         THEN [printed |-> <<>>, msg |-> "called Option::unwrap() on a None value"]
         ELSE IF r.data[1].title.val = Path(post.url)
         THEN IF r.data[1].url.type # "string"
              THEN [printed |-> <<>>, msg |-> "called Option::unwrap() on a None value"]
              ELSE [printed |-> <<SuccessLine(r.data[1])>>,
                    msg |-> "Dicussion could not be generated"]
         ELSE [printed |-> <<>>, msg |-> "Dicussion could not be generated"]
    ELSE [printed |-> <<>>, msg |-> "Dicussion could not be generated"]

\* main up to its first .await: the token is read, the clients are built.
InitMain ==
    /\ env \in { e \in Envs : \A v \in EnvVars \ {"GITHUB_TOKEN"} : e[v] = None }
    /\ entry = "main"
    /\ clients = None
    /\ post \in Posts
    /\ task = [t \in Tasks |-> Idle]
    /\ cd = [NoCall EXCEPT !.pc = IF env["GITHUB_TOKEN"] = None THEN "done"
                                   ELSE MainSteps[1]]
    /\ outcome = IF env["GITHUB_TOKEN"] = None
                 THEN [kind |-> "panic", msg |-> "GITHUB_TOKEN env var is required",
                       by |-> "main"]
                 ELSE Running
    /\ resp = NoResp
    /\ log = <<>>

\* latest_post, post_description or create_graphql_request returns; main
\* unwraps the result.
MainStep ==
    /\ entry = "main"
    /\ outcome.kind = "running"
    /\ \E i \in 1..(Len(MainSteps) - 1) :
          /\ cd.pc = MainSteps[i]
          /\ \E ok \in BOOLEAN :
                IF ok
                THEN /\ cd' = [cd EXCEPT !.pc = MainAfter(i)]
                     /\ UNCHANGED outcome
                ELSE /\ cd' = cd
                     /\ outcome' = [kind |-> "panic", by |-> "main",
                                     msg |-> "called Result::unwrap() on an Err value"]
    /\ UNCHANGED <<entry, clients, post, task, resp, log, env>>

\* octocrab.graphql(&request) returns; main looks at the response and ends.
MainGraphql ==
    /\ entry = "main"
    /\ outcome.kind = "running"
    /\ cd.pc = "graphql"
    /\ \E r \in GraphqlResponses :
          /\ resp' = r
          /\ log' = log \o MainResponse(r).printed
          /\ outcome' = [kind |-> "panic", by |-> "main", msg |-> MainResponse(r).msg]
    /\ cd' = [cd EXCEPT !.pc = "done"]
    /\ UNCHANGED <<entry, clients, post, task, env>>

NextMain == MainStep \/ MainGraphql

SpecMain == InitMain /\ [][NextMain]_vars

-----------------------------------------------------------------------------
(* Actions *)

Cur == [task |-> task, cd |-> cd, outcome |-> outcome]

Becomes(S) ==
    /\ task' = S.task
    /\ cd' = S.cd
    /\ outcome' = S.outcome
    /\ UNCHANGED <<entry, clients, post, env>>

\* Mutant: a sleep that blocks the thread the futures are polled on.
CanReceiveUnlessAsleep(t) ==
    /\ outcome.kind = "running"
    /\ task[t].pc = "await"
    /\ \A u \in Tasks : task[u].pc # "sleep"

CanReceive(t) == outcome.kind = "running" /\ task[t].pc = "await"
CanWake(t) == outcome.kind = "running" /\ task[t].pc = "sleep"

\* The run of create_discussion: a response arrives for a future.
Receive(t) ==
    /\ CanReceive(t)
    /\ \E r \in Responses(t) :
          /\ Serves(t, r, task[t].pages)
          /\ Becomes(Received(Cur, t, r))
    /\ UNCHANGED <<resp, log>>

\* The run of create_discussion: a future's sleep is over.
Wake(t) ==
    /\ CanWake(t)
    /\ Becomes(Woken(Cur, t))
    /\ UNCHANGED <<resp, log>>

\* The run of create_discussion: the mutation's response arrives.
ReceiveMutation ==
    /\ outcome.kind = "running"
    /\ cd.pc = "mutation"
    /\ \E r \in MutationResponses :
          /\ Becomes(MutationReceived(Cur, r))
          /\ resp' = r
    /\ UNCHANGED log

Next == \/ \E t \in Tasks : Receive(t)
        \/ \E t \in Tasks : Wake(t)
        \/ ReceiveMutation

Spec == Init /\ [][Next]_vars

\* eprintln!("Request failed ({}): {}\nSleeping for {} seconds...", ..)
SleepLine(r, secs) == [status |-> r.status, body |-> r.body, sleep_secs |-> secs]

\* One logical query, observed: a response arrives.
QueryReceive ==
    /\ CanReceive("repo")
    /\ \E r \in Responses("repo") :
          /\ Becomes(Received(Cur, "repo", r))
          /\ resp' = r
          /\ log' = IF Received(Cur, "repo", r).task["repo"].pc = "sleep"
                    THEN Append(log, SleepLine(r, Received(Cur, "repo", r).task["repo"].sleep_secs))
                    ELSE log

\* One logical query, observed: the sleep is over.
QueryWake ==
    /\ CanWake("repo")
    /\ Becomes(Woken(Cur, "repo"))
    /\ resp' = NoResp
    /\ UNCHANGED log

NextQuery == QueryReceive \/ QueryWake

SpecQuery == InitQuery /\ [][NextQuery]_vars

\* One walk, observed: a response arrives.
WalkReceive(t) ==
    /\ CanReceive(t)
    /\ \E r \in Responses(t) :
          /\ Serves(t, r, task[t].pages)
          /\ Becomes(Received(Cur, t, r))
          /\ resp' = r
    /\ UNCHANGED log

\* One walk, observed: the sleep is over.
WalkWake(t) ==
    /\ CanWake(t)
    /\ Becomes(Woken(Cur, t))
    /\ resp' = NoResp
    /\ UNCHANGED log

NextWalk == \/ \E t \in {"cat", "disc"} : WalkReceive(t)
            \/ \E t \in {"cat", "disc"} : WalkWake(t)

SpecWalk == InitWalk /\ [][NextWalk]_vars

\* One walk on the runtime: a timer that has expired wakes the future, which
\* is then polled, and run_graphql(..).await completes: no request stays
\* without a response, or a transport error, for ever (the clients are
\* built with a timeout of 60 seconds).
SpecWalkFair ==
    /\ SpecWalk
    /\ \A t \in {"cat", "disc"} : WF_vars(WalkWake(t))
    /\ []<>(~\E t \in {"cat", "disc"} : CanReceive(t))

-----------------------------------------------------------------------------
(* Vocabulary of the claims *)

IsError(r) == r.kind = "ErrorResponse"
HasMarker(r) == Contains(r.body, ServerError)
\* The panics github_gql_query itself raises.
QueryPanics ==
    {"Invalid authentication tokens", "Unexpected redirection response",
     "Unhandled HTTP status code", "Exceeded maximum of 5 attempts"}
Exhausted(t) ==
    /\ outcome.kind = "panic"
    /\ outcome.msg = "Exceeded maximum of 5 attempts"
    /\ outcome.by = t
\* 5 * 2^n for n = 1..5
Backoffs == <<10, 20, 40, 80, 160>>

\* The step that ends a sleep of the observed query sends one more request.
RetryStep ==
    /\ task'["repo"].pc = "await"
    /\ task'["repo"].attempt = task["repo"].attempt + 1
    /\ task'["repo"].sent = task["repo"].sent + 1
    /\ outcome'.kind = "running"
\* The step that ends a sleep of the observed query sends nothing and fails.
ExhaustionStep ==
    /\ task' = task
    /\ outcome' = [kind |-> "panic", msg |-> "Exceeded maximum of 5 attempts",
                   by |-> "repo"]
    /\ OperationName(outcome'.by) = "RepoIdQuery"

-----------------------------------------------------------------------------
(* C1..C10 *)

\* C1: a createDiscussion mutation has been sent only if discussion_exists
\* has completed (and found nothing), whatever the order in which the two
\* joined futures made their steps.
C1_MutationAfterDetector ==
    cd.mutations > 0 =>
        /\ task["disc"].pc = "done"
        /\ task["disc"].result = Ok(None)
        /\ task["repo"].pc = "done"
C1_Witness ==
    cd.pc = "mutation" /\ cd.mutations = 1 /\ task["disc"].pc = "done"

\* C2 as stated: once discussion_exists has returned Some(url), the run of
\* create_discussion sends no mutation and, when it ends, ends with Ok(()),
\* whatever the repository-id lookup does.
C2_DuplicateIsSuccess ==
    (task["disc"].pc = "done" /\ task["disc"].result.kind = "Ok"
        /\ task["disc"].result.val # None)
    => /\ cd.mutations = 0
       /\ outcome.kind \in {"running", "Ok"}
       /\ outcome.kind = "Ok" => cd.existing = task["disc"].result.val

\* C3: one call of github_gql_query issues at most 5 HTTP requests.
C3_AtMostFiveRequests ==
    \A t \in Tasks : task[t].sent <= 5 /\ task[t].sent = task[t].attempt
C3_Witness ==
    task["repo"].sent = 5 /\ task["repo"].pc = "await" /\ Len(log) = 4

\* C4: after four retryable failures a success on the 5th attempt is
\* returned to the caller; after five retryable failures the query ends in
\* the exhaustion panic for its operation, with 5 requests sent and no more;
\* the exhaustion panic happens in no other case.
C4_FifthAttempt ==
    /\ (Len(log) = 4 /\ resp.kind = "Ok") =>
          /\ outcome.kind # "running"
          /\ outcome.msg \notin QueryPanics
          /\ resp.data # None =>
                /\ outcome.kind = "Ok"
                /\ task["repo"].result.val.repo_id = resp.data[1]
    /\ Len(log) = 5 =>
          /\ task["repo"].sent = 5
          /\ \/ outcome.kind = "running" /\ task["repo"].pc = "sleep"
             \/ Exhausted("repo") /\ OperationName(outcome.by) = "RepoIdQuery"
    /\ Exhausted("repo") => Len(log) = 5 /\ task["repo"].sent = 5
    /\ Len(log) <= 5
C4_Witness ==
    Len(log) = 5 /\ Exhausted("repo") /\ task["repo"].sent = 5

\* C5 as stated: a 401 error response, with any body, is fatal at once.
C5_Any401IsFatal ==
    (IsError(resp) /\ resp.status = 401) =>
        outcome.kind = "panic" /\ outcome.msg = "Invalid authentication tokens"

\* C5, amended: a 401 error response whose body does not contain "Server
\* Error" is fatal at once on any attempt: no sleep is started, nothing is
\* written by gql_sleep and no further request is sent.
C5_401WithoutMarkerIsFatal ==
    (IsError(resp) /\ resp.status = 401 /\ ~HasMarker(resp)) =>
        /\ outcome.kind = "panic"
        /\ outcome.msg = "Invalid authentication tokens"
        /\ task["repo"].pc = "await"
        /\ task["repo"].sleep_secs = 0
        /\ Len(log) = task["repo"].attempt - 1
        /\ ~ENABLED NextQuery
C5_Witness ==
    /\ IsError(resp) /\ resp.status = 401 /\ ~HasMarker(resp)
    /\ task["repo"].attempt = 3
    /\ outcome.kind = "panic"

\* C6 as stated: a 403 error response on attempt n sleeps 5 * 2^n seconds
\* and the sleep is followed by a retry, for n in 1..5.
C6_Every403BacksOffAndRetries ==
    [][ /\ (IsError(resp') /\ resp'.status = 403) =>
              /\ task'["repo"].pc = "sleep"
              /\ task'["repo"].sleep_secs = Backoffs[task'["repo"].attempt]
        /\ (IsError(resp) /\ resp.status = 403 /\ vars' # vars) => RetryStep
      ]_vars

\* C6, amended: a 403 error response whose body does not contain "Server
\* Error" on attempt n sleeps exactly 5 * 2^n seconds (10, 20, 40, 80, 160);
\* the sleep is followed by a retry when n < 5 and by the exhaustion panic,
\* with no further request, when n = 5.
C6_403BackoffIsExponential ==
    [][ /\ (IsError(resp') /\ resp'.status = 403 /\ ~HasMarker(resp')) =>
              /\ task'["repo"].pc = "sleep"
              /\ task'["repo"].sleep_secs = Backoffs[task'["repo"].attempt]
              /\ log'[Len(log')].sleep_secs = Backoffs[Len(log')]
        /\ (IsError(resp) /\ resp.status = 403 /\ ~HasMarker(resp) /\ vars' # vars) =>
              IF task["repo"].attempt < 5 THEN RetryStep ELSE ExhaustionStep
      ]_vars
C6_Witness ==
    /\ IsError(resp) /\ resp.status = 403 /\ ~HasMarker(resp)
    /\ task["repo"].attempt = 5
    /\ task["repo"].pc = "sleep"
    /\ task["repo"].sleep_secs = 160

\* C7 as stated: an error response with a status in 300-399 or outside
\* 300-599 is fatal and not retried, with any body.
C7_AnyRedirectOrUnknownIsFatal ==
    (IsError(resp) /\ (resp.status \in 300..399 \/ resp.status \notin 300..599)) =>
        outcome.kind = "panic"

\* C7, amended: an error response whose body does not contain "Server
\* Error" and whose status is in 300-399, or outside 300-599, is fatal and
\* not retried: no sleep is started and no further request is sent.
C7_RedirectOrUnknownWithoutMarkerIsFatal ==
    (IsError(resp) /\ ~HasMarker(resp)
        /\ (resp.status \in 300..399 \/ resp.status \notin 300..599)) =>
        /\ outcome.kind = "panic"
        /\ outcome.msg = IF resp.status \in 300..399
                         THEN "Unexpected redirection response"
                         ELSE "Unhandled HTTP status code"
        /\ task["repo"].pc = "await"
        /\ task["repo"].sleep_secs = 0
        /\ Len(log) = task["repo"].attempt - 1
        /\ ~ENABLED NextQuery
C7_Witness ==
    /\ IsError(resp) /\ ~HasMarker(resp) /\ resp.status = 600
    /\ task["repo"].attempt = 2
    /\ outcome.kind = "panic"

\* The error responses C8 is about.
ThirtySecondError(r) ==
    IsError(r) /\ (HasMarker(r) \/ (r.status \in 400..599 /\ r.status \notin {401, 403}))

\* C8 as stated: such a response causes a sleep of 30 seconds that is
\* followed by a retry.
C8_ThirtySecondsThenRetry ==
    [][ /\ ThirtySecondError(resp') =>
              task'["repo"].pc = "sleep" /\ task'["repo"].sleep_secs = 30
        /\ (ThirtySecondError(resp) /\ vars' # vars) => RetryStep
      ]_vars

\* C8, amended: an error response whose body contains "Server Error"
\* (whatever its status), or whose status is in 400-599 other than 401 and
\* 403, causes a sleep of exactly 30 seconds and consumes one of the 5
\* attempts; the sleep is followed by a retry when the attempt was one of
\* the first four, and by the exhaustion panic when it was the 5th.
C8_ThirtySecondsThenRetryOrExhaustion ==
    [][ /\ ThirtySecondError(resp') =>
              /\ task'["repo"].pc = "sleep"
              /\ task'["repo"].sleep_secs = 30
              /\ log'[Len(log')] = SleepLine(resp', 30)
              /\ Len(log') = task'["repo"].attempt
        /\ (ThirtySecondError(resp) /\ vars' # vars) =>
              IF task["repo"].attempt < 5 THEN RetryStep ELSE ExhaustionStep
      ]_vars
C8_Witness ==
    /\ IsError(resp) /\ HasMarker(resp) /\ resp.status = 401
    /\ task["repo"].pc = "sleep"
    /\ task["repo"].sleep_secs = 30

\* The attempts before attempt n that were retried for the marker.
MarkerRetriesBefore(n) == Cardinality({ i \in 1..(n - 1) : HasMarker(log[i]) })

\* C9 as stated: the exponent of a 403 backoff does not count the earlier
\* attempts that were retried because of the server-error marker.
C9_MarkerRetriesDoNotRaiseExponent ==
    \A n \in 1..Len(log) :
        (log[n].status = 403 /\ ~HasMarker(log[n])) =>
            log[n].sleep_secs = 5 * 2^(n - MarkerRetriesBefore(n))

\* C9, amended: the exponent of a 403 backoff is the number of the attempt,
\* which counts every earlier attempt of the logical query, those retried
\* because of the server-error marker included (a marker failure followed
\* by a first 403 sleeps 5 * 2^2 = 20 seconds).
C9_MarkerRetriesRaiseExponent ==
    \A n \in 1..Len(log) :
        (log[n].status = 403 /\ ~HasMarker(log[n])) =>
            log[n].sleep_secs =
                5 * 2^(MarkerRetriesBefore(n) + (n - MarkerRetriesBefore(n)))
C9_Witness ==
    /\ Len(log) = 2
    /\ HasMarker(log[1])
    /\ log[2].status = 403 /\ ~HasMarker(log[2])
    /\ log[2].sleep_secs = 20

\* The page a successful response carries was scanned and its item i made
\* the walk's match function answer Found.
CategoryFound(i) ==
    LET cats == Nodes(resp.data[1].edges)
    IN  /\ i \in 1..Len(cats)
        /\ cats[i].name = clients.discussion_category
        /\ \A j \in 1..(i - 1) : cats[j].name # clients.discussion_category
DiscussionFound(i) ==
    LET ds == Nodes(resp.data[1].edges)
        old(d) == clients.lookback_days # 0 /\ d.created_at > clients.lookback_days
        hit(d) == Contains(Tail(post.url), d.title)
    IN  /\ i \in 1..Len(ds)
        /\ ~old(ds[i]) /\ hit(ds[i])
        /\ \A j \in 1..(i - 1) : ~old(ds[j]) /\ ~hit(ds[j])

\* C10: in both walks, when an item of the page just received matches, the
\* walk returns that item (the category's id, the discussion's url) and
\* leaves no request outstanding, whether or not the page has a next page.
C10_MatchEndsWalk ==
    /\ (entry = "get_category_id" /\ resp.kind = "Ok" /\ resp.data # None) =>
          \A i \in 1..MaxEdges + 1 :
              CategoryFound(i) =>
                  /\ task["cat"].pc = "done"
                  /\ task["cat"].sent = 0
                  /\ task["cat"].result = Ok(Nodes(resp.data[1].edges)[i].id)
                  /\ outcome.kind = "Ok"
    /\ (entry = "discussion_exists" /\ resp.kind = "Ok" /\ resp.data # None
            /\ ~resp.errors) =>
          \A i \in 1..MaxEdges + 1 :
              DiscussionFound(i) =>
                  /\ task["disc"].pc = "done"
                  /\ task["disc"].sent = 0
                  /\ task["disc"].result = Ok(Some(Nodes(resp.data[1].edges)[i].url))
                  /\ outcome.kind = "Ok"
C10_Witness ==
    /\ entry = "discussion_exists" /\ resp.kind = "Ok" /\ resp.data # None
    /\ ~resp.errors
    /\ resp.data[1].page_info.has_next_page
    /\ DiscussionFound(2)
    /\ task["disc"].pc = "done"

-----------------------------------------------------------------------------
(* C11..C20 *)

\* The page the latest response of the walk `e` carried.
PageReceived(e) ==
    /\ entry = e
    /\ resp.kind = "Ok"
    /\ resp.data # None
    /\ e = "discussion_exists" => ~resp.errors
Items == Nodes(resp.data[1].edges)
\* The age test of discussion_exists answers Stop for the discussion d.
StopsOnAge(d) == clients.lookback_days # 0 /\ d.created_at > clients.lookback_days
\* The title of d is found in the path of the post's url.
InPath(d) == Contains(Tail(post.url), d.title)
\* Item i of the page is the first that makes the scan answer Stop.
DiscussionStopped(i) ==
    /\ i \in 1..Len(Items)
    /\ StopsOnAge(Items[i])
    /\ \A j \in 1..(i - 1) : ~StopsOnAge(Items[j]) /\ ~InPath(Items[j])
\* The walk t has returned `result` and has nothing more to do.
WalkOver(t, result) ==
    /\ task[t].pc = "done"
    /\ task[t].sent = 0
    /\ task[t].result = result
    /\ outcome.kind = result.kind
    /\ ~ENABLED NextWalk

\* C11: in discussion_exists, when an item of the page just received is out
\* of the lookback window and no earlier item matched, the walk returns
\* Ok(None) at once: the later items of the page are not examined and no
\* further page is requested, even if the page has a next page or a later
\* item would match.
C11_StopEndsWalk ==
    PageReceived("discussion_exists") =>
        \A i \in 1..MaxEdges + 1 :
            DiscussionStopped(i) => WalkOver("disc", Ok(None))
C11_Witness ==
    /\ PageReceived("discussion_exists")
    /\ resp.data[1].page_info.has_next_page
    /\ Len(Items) = 2
    /\ DiscussionStopped(1)
    /\ ~StopsOnAge(Items[2]) /\ InPath(Items[2])
    /\ WalkOver("disc", Ok(None))

\* The page just received is the last one and none of its items matches or
\* stops.
LastPageWithoutMatch ==
    /\ PageReceived("discussion_exists")
    /\ ~resp.data[1].page_info.has_next_page
    /\ \A i \in 1..Len(Items) : ~StopsOnAge(Items[i]) /\ ~InPath(Items[i])

\* C12: the server serving finitely many pages, a walk of discussion_exists
\* ends; when the page with has_next_page = false arrives and none of its
\* items matches or stops, the walk returns Ok(None) and requests no page
\* after it.
C12_WalkEndsAfterLastPage ==
    /\ [](LastPageWithoutMatch => WalkOver("disc", Ok(None)))
    /\ (entry = "discussion_exists") ~> (outcome.kind # "running")
C12_Witness ==
    /\ LastPageWithoutMatch
    /\ Len(Items) = 2
    /\ WalkOver("disc", Ok(None))

\* C13: in both walks the first page request carries no cursor; a step that
\* issues the request for a further page gives it exactly the end_cursor of
\* the page just received; and the retries of a page request carry the
\* cursor of the first attempt.
C13_CursorsAreEchoed ==
    [][ \A t \in {"cat", "disc"} :
          /\ task[t].pages = 1 => task[t].after_cursor = None
          /\ task'[t].pages = task[t].pages + 1 =>
                /\ resp'.kind = "Ok" /\ resp'.data # None
                /\ task'[t].after_cursor = resp'.data[1].page_info.end_cursor
                /\ task'[t].pc = "await"
          /\ task'[t].pages = task[t].pages =>
                task'[t].after_cursor = task[t].after_cursor
      ]_vars
C13_Witness ==
    /\ task["cat"].pages = 3
    /\ task["cat"].pc = "await"
    /\ task["cat"].sent = 2
    /\ task["cat"].after_cursor = Some("Y3Vyc29yOjI")

\* The response r carries a page, for the walk t.
IsPage(t, r) ==
    /\ r.kind = "Ok"
    /\ r.data # None
    /\ t = "disc" => ~r.errors
\* The scan of the page that r carries finds nothing that ends the walk t.
ScannedWithoutResult(t, r) ==
    LET items == Nodes(r.data[1].edges)
    IN  \A i \in 1..Len(items) :
            IF t = "cat"
            THEN items[i].name # clients.discussion_category
            ELSE ~StopsOnAge(items[i]) /\ ~InPath(items[i])

\* C14: within one walk the requests follow one another: the request for
\* page k+1 is issued only by the step that consumes the response to the
\* outstanding request for page k, after that page was scanned without a
\* result and reported a next page; it is then the walk's only request.
C14_PagesAreSequential ==
    [][ \A t \in {"cat", "disc"} :
          task'[t].pages > task[t].pages =>
              /\ task'[t].pages = task[t].pages + 1
              /\ task[t].pc = "await"
              /\ IsPage(t, resp')
              /\ ScannedWithoutResult(t, resp')
              /\ resp'.data[1].page_info.has_next_page
              /\ task'[t].pc = "await"
              /\ task'[t].sent = 1
              /\ task'[t].attempt = 1
      ]_vars
C14_Witness ==
    /\ task["disc"].pages = 2
    /\ task["disc"].pc = "await"
    /\ task["disc"].sent = 1
    /\ IsPage("disc", resp)
    /\ Len(Items) = 2
    /\ ScannedWithoutResult("disc", resp)

\* get_category_id has failed for want of the category.
CategoryAbsent ==
    /\ outcome.kind = "panic"
    /\ outcome.by = "cat"
    /\ outcome.msg = "Category was not present in repository"

\* C15: get_category_id, receiving a page without the configured name,
\* never returns Ok: it requests the next page when the page reports one,
\* and fails with "category not present" when it reports none; the failure
\* happens in no other case, so that with 3 pages it follows the 3rd page
\* request and no request follows it.
C15_AbsentCategoryFailsAfterLastPage ==
    /\ (PageReceived("get_category_id") /\ ScannedWithoutResult("cat", resp)) =>
          /\ outcome.kind # "Ok"
          /\ IF resp.data[1].page_info.has_next_page
             THEN outcome.kind = "running" /\ task["cat"].pc = "await"
             ELSE CategoryAbsent
    /\ CategoryAbsent =>
          /\ PageReceived("get_category_id")
          /\ ScannedWithoutResult("cat", resp)
          /\ ~resp.data[1].page_info.has_next_page
          /\ task["cat"].pages \in 1..MaxPages
          /\ task["cat"].sent \in 1..5
          /\ ~ENABLED NextWalk
C15_Witness ==
    /\ CategoryAbsent
    /\ task["cat"].pages = 3
    /\ Len(Items) = 2

\* Edge e of the page that r carries has a node, named as configured.
Named(r, e) ==
    /\ r.data[1].edges[e].node # None
    /\ r.data[1].edges[e].node[1].name = clients.discussion_category

\* C16: when get_category_id returns Ok(id), id is the id of the first edge
\* of the page just received that has a node whose name equals the
\* configured discussion_category; every page received before it had no
\* such edge.
C16_FirstCategoryOfThatName ==
    [][ /\ (entry = "get_category_id" /\ outcome'.kind = "Ok") =>
              /\ IsPage("cat", resp')
              /\ \E e \in 1..Len(resp'.data[1].edges) :
                    /\ Named(resp', e)
                    /\ \A f \in 1..(e - 1) : ~Named(resp', f)
                    /\ task'["cat"].result = Ok(resp'.data[1].edges[e].node[1].id)
        /\ (task'["cat"].pages > task["cat"].pages) =>
              \A e \in 1..Len(resp'.data[1].edges) : ~Named(resp', e)
      ]_vars
C16_Witness ==
    /\ entry = "get_category_id"
    /\ outcome.kind = "Ok"
    /\ Len(resp.data[1].edges) = 2
    /\ Named(resp, 1) /\ Named(resp, 2)
    /\ resp.data[1].edges[1].node[1].id = "DIC_2"
    /\ resp.data[1].edges[2].node[1].id = "DIC_1"
    /\ task["cat"].result = Ok("DIC_2")

\* The lookback window as the configuration describes it: a positive
\* number of days, 0 for no window.
OutOfWindow(d) == clients.lookback_days > 0 /\ d.created_at > clients.lookback_days
\* A discussion as the server lists it.
Listed(title, age) ==
    [title |-> title, created_at |-> age, url |-> DiscussionNumber(title, age)]
\* The list [post-b created 1 day ago, post-a created 10 days ago].
NewerThenOlder == << Listed(<<"/", "post-b">>, 1), Listed(<<"/", "post-a">>, 10) >>
\* discussion_exists has returned Some(url).
DuplicateReturned ==
    /\ task["disc"].pc = "done"
    /\ task["disc"].result.kind = "Ok"
    /\ task["disc"].result.val # None

\* C17: a discussion that discussion_exists returns lies before the first
\* out-of-window discussion of its page, in server order; for the list
\* [post-b 1 day old, post-a 10 days old], lookback_days = 7 and the post
\* /post-a the result is Ok(None).
C17_AgeCutoffBeforeMatch ==
    PageReceived("discussion_exists") =>
        /\ DuplicateReturned =>
              \E i \in 1..Len(Items) :
                  /\ Items[i].url = task["disc"].result.val[1]
                  /\ \A j \in 1..i : ~OutOfWindow(Items[j])
        /\ (clients.lookback_days = 7 /\ Items = NewerThenOlder) =>
              WalkOver("disc", Ok(None))
C17_Witness ==
    /\ PageReceived("discussion_exists")
    /\ clients.lookback_days = 7
    /\ Items = NewerThenOlder
    /\ InPath(Items[2])
    /\ WalkOver("disc", Ok(None))

\* Item i is the first of the page whose title is found in the post's path.
FirstInPath(i) ==
    /\ i \in 1..Len(Items)
    /\ InPath(Items[i])
    /\ \A j \in 1..(i - 1) : ~InPath(Items[j])

\* C18: with lookback_days = 0 no discussion stops the scan, whatever its
\* age: the first discussion of the page whose title matches is returned as
\* Some(url); a page without a match leads to the next page, or to Ok(None)
\* after the last; for the list [post-b 1 day old, post-a 10 days old] and
\* the post /post-a the result is Some(url of post-a).
C18_ZeroLookbackNeverStops ==
    (PageReceived("discussion_exists") /\ clients.lookback_days = 0) =>
        /\ \A i \in 1..MaxEdges + 1 :
              FirstInPath(i) => WalkOver("disc", Ok(Some(Items[i].url)))
        /\ (\A i \in 1..Len(Items) : ~InPath(Items[i])) =>
              IF resp.data[1].page_info.has_next_page
              THEN outcome.kind = "running" /\ task["disc"].pc = "await"
              ELSE WalkOver("disc", Ok(None))
        /\ Items = NewerThenOlder =>
              WalkOver("disc", Ok(Some(DiscussionNumber(<<"/", "post-a">>, 10))))
C18_Witness ==
    /\ PageReceived("discussion_exists")
    /\ clients.lookback_days = 0
    /\ Items = NewerThenOlder
    /\ task["disc"].result = Ok(Some(DiscussionNumber(<<"/", "post-a">>, 10)))

\* C19 as stated: discussion_exists stops on age at a discussion if and
\* only if lookback_days > 0 and the discussion is strictly older than
\* lookback_days; so the first discussion of a page whose title matches,
\* none before it being out of the window, is returned as Some(url) unless
\* it is out of the window itself, for negative lookback_days as for 0.
C19_AgeStopIffPositiveAndOlder ==
    PageReceived("discussion_exists") =>
        \A i \in 1..Len(Items) :
            (/\ InPath(Items[i])
             /\ \A j \in 1..(i - 1) : ~OutOfWindow(Items[j]) /\ ~InPath(Items[j]))
            => IF OutOfWindow(Items[i])
               THEN WalkOver("disc", Ok(None))
               ELSE WalkOver("disc", Ok(Some(Items[i].url)))

\* The title of d equals the post's title (the path of its url) or is a
\* substring of that path, and d is in the lookback window.
Candidate(d) ==
    /\ ~OutOfWindow(d)
    /\ \/ d.title = Tail(post.url)
       \/ \E i \in 1..Len(Tail(post.url)) : \E j \in i..Len(Tail(post.url)) :
              SubSeq(Tail(post.url), i, j) = d.title

\* C20: when discussion_exists returns Some(u), u is the url of the first
\* discussion of the page just received that is in the window and whose
\* title equals the post's path or is a substring of it; when the page has
\* no such discussion, no Some is returned, and a walk that returns,
\* returns Ok(None).
C20_FirstCandidateOrNone ==
    PageReceived("discussion_exists") =>
        /\ DuplicateReturned =>
              \E i \in 1..Len(Items) :
                  /\ Candidate(Items[i])
                  /\ \A j \in 1..(i - 1) : ~Candidate(Items[j])
                  /\ task["disc"].result = Ok(Some(Items[i].url))
        /\ (\A i \in 1..Len(Items) : ~Candidate(Items[i])) =>
              /\ ~DuplicateReturned
              /\ task["disc"].pc = "done" => task["disc"].result = Ok(None)
C20_Witness ==
    /\ PageReceived("discussion_exists")
    /\ clients.lookback_days = 7
    /\ Len(Items) = 2
    /\ ~Candidate(Items[1])
    /\ Items[2].title = <<"post-a">>
    /\ task["disc"].result = Ok(Some(Items[2].url))

-----------------------------------------------------------------------------
(* C21..C30 *)

\* create_graphql_request has returned the mutation it built.
MutationBuilt ==
    /\ task["repo"].pc = "done"
    /\ task["repo"].result.kind = "Ok"
\* The body the claim describes for the discussion.
DescribedBody ==
    IF post.description = None
    THEN post.url
    ELSE post.description[1] \o <<"\n\n">> \o post.url

\* C21: the mutation create_graphql_request returns has the path of the
\* post's url for title, the resolved category id, the repository id that
\* was looked up, and for body the description, two newlines and the full
\* url of the post, or the url alone when there is no description.
C21_MutationVariables ==
    MutationBuilt =>
        LET m == task["repo"].result.val
        IN  /\ m.title = Tail(post.url)
            /\ m.cat_id = cd.cat_id[1]
            /\ m.cat_id = task["cat"].result.val
            /\ m.repo_id = RepoId
            /\ m.desc = DescribedBody
            /\ Len(m.desc) = IF post.description = None THEN 3 ELSE 6
C21_Witness ==
    /\ MutationBuilt
    /\ cd.pc = "mutation"
    /\ post.description # None
    /\ task["repo"].result.val.cat_id = "DIC_2"
    /\ task["repo"].result.val.desc[3] = "\n\n"

\* The response to the mutation has arrived.
MutationAnswered == cd.mutations > 0 /\ resp # NoResp
\* An error response the retry policy retries.
Retryable(r) ==
    /\ IsError(r)
    /\ \/ HasMarker(r)
       \/ r.status = 403
       \/ r.status \in 400..599 /\ r.status # 401

\* C22 as stated: a retryable error response to the createDiscussion
\* mutation does not end the run: it is followed by a backoff and a retry,
\* as for the queries.
C22_MutationIsRetried ==
    (MutationAnswered /\ Retryable(resp)) =>
        /\ outcome.kind = "running"
        /\ cd.pc = "mutation"

\* C23: a response to the mutation that is a transport success without a
\* discussion ends create_discussion in the panic that prints the errors
\* the response carries; the run never returns Ok(()) and records no
\* created discussion.
C23_NoPayloadIsFatal ==
    (MutationAnswered /\ resp.kind = "Ok" /\ resp.data = None) =>
        /\ outcome.kind = "panic"
        /\ outcome.by = "create_discussion"
        /\ outcome.msg = IF resp.errors
                         THEN "Discussion could not be generated. GraphQL errors: Some([..])"
                         ELSE "Discussion could not be generated. GraphQL errors: None"
        /\ cd.created = None
        /\ ~ENABLED Next
C23_Witness ==
    /\ MutationAnswered
    /\ resp.kind = "Ok" /\ resp.data = None /\ resp.errors
    /\ outcome.kind = "panic"
    /\ outcome.by = "create_discussion"

\* The two futures of the join!.
Joint == {"disc", "repo"}

\* C24: while one of the two joined futures sleeps in a backoff, the other
\* can take its next step (receive the response to its outstanding request,
\* or end its own sleep), and a step of one future leaves the frame of the
\* other, its sleep included, as it was.
C24_SleepsAreIndependent ==
    /\ [](\A t \in Joint : \A u \in Joint \ {t} :
            (outcome.kind = "running" /\ cd.pc = "join" /\ task[t].pc = "sleep") =>
                /\ task[u].pc = "await" => ENABLED Receive(u)
                /\ task[u].pc = "sleep" => ENABLED Wake(u)
                /\ ENABLED Wake(t))
    /\ [][ cd.pc = "join" =>
              \A t \in Joint : \A u \in Joint \ {t} :
                  task'[u] # task[u] => task'[t] = task[t] ]_vars
C24_Witness ==
    /\ outcome.kind = "running"
    /\ task["disc"].pc = "sleep"
    /\ task["disc"].attempt = 1
    /\ task["repo"].pc = "done"
    /\ task["repo"].result.kind = "Ok"

\* The future the walk under observation runs in.
Walker == IF entry = "get_category_id" THEN "cat" ELSE "disc"

\* C25: a request that fails without an HTTP error status makes
\* github_gql_query return the error in the step that receives it, on any
\* attempt: no sleep is started and no further request is sent, and the
\* caller returns the error in its turn.
C25_TransportErrorIsReturned ==
    [][ resp'.kind = "ReqwestError" =>
            /\ task[Walker].pc = "await"
            /\ task'[Walker].pc = "done"
            /\ task'[Walker].sleep_secs = 0
            /\ task'[Walker].sent = 0
            /\ task'[Walker].result = Err
            /\ outcome'.kind = "Err"
      ]_vars
C25_Witness ==
    /\ resp.kind = "ReqwestError"
    /\ entry = "discussion_exists"
    /\ WalkOver("disc", Err)

\* get_category_id has panicked, or has returned an error.
CategoryFailed ==
    \/ outcome.kind = "panic" /\ outcome.by = "cat"
    \/ task["cat"].pc = "done" /\ task["cat"].result.kind = "Err"

\* C26: when get_category_id panics or returns an error, the run of
\* create_discussion has ended without success: no discussions query, no
\* repository-id query and no mutation was or will be sent, and no category
\* id is in use; the two queries are sent only once get_category_id has
\* returned Ok(id).
C26_CategoryFailureAborts ==
    /\ CategoryFailed =>
          /\ outcome.kind \in {"panic", "Err"}
          /\ task["disc"] = Idle
          /\ task["repo"] = Idle
          /\ cd.mutations = 0
          /\ cd.cat_id = None
          /\ cd.existing = None /\ cd.created = None
          /\ ~ENABLED Next
    /\ (task["disc"] # Idle \/ task["repo"] # Idle \/ cd.mutations > 0) =>
          /\ task["cat"].pc = "done"
          /\ task["cat"].result.kind = "Ok"
          /\ cd.cat_id = Some(task["cat"].result.val)
C26_Witness ==
    /\ task["cat"].pc = "done"
    /\ task["cat"].result = Err
    /\ outcome.kind = "Err"
    /\ task["disc"] = Idle

\* C27: every page request of a walk starts a query of its own: its first
\* request is attempt 1 whatever number of attempts the previous page
\* took, a first 403 (without the marker) sleeps 10 seconds on any page,
\* and the exhaustion failure of a page follows 5 attempts for that page.
C27_FreshRetryStatePerPage ==
    [][ /\ task'[Walker].pages > task[Walker].pages =>
              /\ task'[Walker].attempt = 1
              /\ task'[Walker].sent = 1
              /\ task'[Walker].sleep_secs = 0
        /\ (/\ IsError(resp') /\ resp'.status = 403 /\ ~HasMarker(resp')
            /\ task[Walker].sent = 1) =>
              /\ task'[Walker].pc = "sleep"
              /\ task'[Walker].sleep_secs = 10
        /\ (Exhausted(Walker))' =>
              /\ task[Walker].sent = 5
              /\ task[Walker].pc = "sleep"
      ]_vars
C27_Witness ==
    /\ task["disc"].pages = 3
    /\ task["disc"].sent = 1
    /\ task["disc"].pc = "sleep"
    /\ task["disc"].sleep_secs = 10
    /\ IsError(resp) /\ resp.status = 403

\* C28 as stated: the structure HttpClients::init builds has for
\* github_rest_url the value of GITHUB_API_URL when that variable is set,
\* and https://api.github.com only when it is unset.
C28_RestUrlFromGithubApiUrl ==
    (entry = "HttpClients::init" /\ outcome.kind = "Ok") =>
        clients[1].github_rest_url =
            IF env["GITHUB_API_URL"] # None
            THEN env["GITHUB_API_URL"][1]
            ELSE "https://api.github.com"

\* The response to the mutation reports the discussion created for the post.
ReportsCreated(r) ==
    /\ r.kind = "Ok"
    /\ r.data # None
    /\ r.data[1].id.type = "number"
    /\ r.data[1].title = [type |-> "string", val |-> Tail(post.url)]
    /\ r.data[1].url.type = "string"

\* C29 as stated: in main, a run whose mutation response reports the
\* created discussion prints the success message and ends without the fatal
\* diagnostic, which is reached only when no discussion was created.
C29_SuccessIsNotFatal ==
    entry = "main" =>
        /\ (resp # NoResp /\ ReportsCreated(resp)) =>
              /\ Len(log) = 1
              /\ outcome.kind # "panic"
        /\ (outcome.kind = "panic" /\ outcome.msg = "Dicussion could not be generated") =>
              ~ReportsCreated(resp)

\* C30: in github_gql_query the step that receives a retryable error
\* response starts one sleep and writes one line, on the 5th attempt as on
\* the others; no other step does; so the lines written are as many as the
\* retryable failures, and the exhaustion failure is raised by the step
\* that ends the sleep after the 5th failure.
C30_OneSleepPerRetryableFailure ==
    [][ /\ IF resp' # NoResp /\ Retryable(resp')
           THEN /\ task'["repo"].pc = "sleep"
                /\ task'["repo"].sleep_secs > 0
                /\ Len(log') = Len(log) + 1
                /\ log'[Len(log')].sleep_secs = task'["repo"].sleep_secs
                /\ outcome'.kind = "running"
           ELSE /\ log' = log
                /\ outcome'.kind = "running" => task'["repo"].pc # "sleep"
        /\ Len(log') = IF task'["repo"].pc = "sleep" THEN task'["repo"].attempt
                       ELSE IF task'["repo"].pc = "await" THEN task'["repo"].attempt - 1
                       ELSE Len(log)
        /\ (Exhausted("repo"))' =>
              /\ task["repo"].pc = "sleep"
              /\ task["repo"].attempt = 5
              /\ Len(log) = 5
      ]_vars
C30_Witness ==
    /\ outcome.kind = "running"
    /\ task["repo"].pc = "sleep"
    /\ task["repo"].attempt = 5
    /\ Len(log) = 5
    /\ Retryable(resp)

-----------------------------------------------------------------------------
(* C31..C32 *)

\* The step hands the walk t a page that reports a next page, and the
\* walk goes on to request it; the page's end_cursor, when it has one, is
\* not the cursor of the request it answers.
NextPageAsked(t) ==
    /\ task'[t].pages = task[t].pages + 1
    /\ IsPage(t, resp')
    /\ resp'.data[1].page_info.has_next_page
    /\ \/ resp'.data[1].page_info.end_cursor = None
       \/ resp'.data[1].page_info.end_cursor # task[t].after_cursor

\* C31: a walk makes progress: after a page with has_next_page = true the
\* cursor of the next request differs from the cursor of the request just
\* answered, also when the page carries no end_cursor.
C31_CursorAdvances ==
    [][ \A t \in {"cat", "disc"} :
          NextPageAsked(t) => task'[t].after_cursor # task[t].after_cursor
      ]_vars

\* The latest response to discussion_exists carries a GraphQL errors list,
\* or no repository data.
Unusable ==
    /\ entry = "discussion_exists"
    /\ resp.kind = "Ok"
    /\ resp.errors \/ resp.data = None

\* C32: discussion_exists fails on a discussions response that carries an
\* errors list, also when it carries discussions, and on one without
\* repository data: the function panics with "Unable to query existing
\* repos", returns neither Ok(None) nor Ok(Some(url)), and requests no
\* further page.
C32_ErrorsListIsFatal ==
    Unusable =>
        /\ outcome = [kind |-> "panic", msg |-> "Unable to query existing repos",
                      by |-> "disc"]
        /\ task["disc"].result = NoResult
        /\ task["disc"].pc = "await"
        /\ ~ENABLED NextWalk
C32_Witness ==
    /\ Unusable
    /\ resp.data = Some(PageWithErrors)
    /\ InPath(Items[1]) /\ ~StopsOnAge(Items[1])
    /\ outcome.kind = "panic"
    /\ task["disc"].pages = 2

====
